---- MODULE Spec2Model ----
(***************************************************************************)
(* Model of src/src/filemanager/dirwatch.c: the inotify-based directory    *)
(* watcher of the two file manager panels, its debounce timer and its      *)
(* quiet mode, together with the parts of the environment it talks to:     *)
(* the kernel's inotify instance and timerfd, the select loop that owns    *)
(* the registered channels, and the two panels.                            *)
(***************************************************************************)
EXTENDS Integers, Sequences, FiniteSets, TLC

(* ------------------------------ bounds --------------------------------- *)
MaxPath == 2          \* directories 1..MaxPath
MaxWd == 2            \* watch descriptors the inotify instance hands out
MaxQueue == 1         \* unread records the inotify queue holds
MaxDebounce == 2      \* largest configured debounce interval (seconds)
MaxName == 3          \* characters of an entry name or a directory path

(* ----------------------------- constants ------------------------------- *)
NoFd == -1            \* "no descriptor"
NoWd == -1            \* "no watch handle"; also inotify_add_watch's error
NoPath == 0           \* NULL path
LEFT == 0
RIGHT == 1
IFD == 3              \* descriptor returned by a successful inotify_init1
TFD == 4              \* descriptor returned by a successful timerfd_create
OVERFLOW_WD == -1     \* wd field of the kernel's IN_Q_OVERFLOW record
BufRecords == 256     \* records one read() of the 4096 byte buffer can hold

Slots == {LEFT, RIGHT}
Paths == 1..MaxPath
Wds == 1..MaxWd
DebounceChoices == {-1, 0, 1, MaxDebounce}

(* ------------------------------ panels --------------------------------- *)
\* What dirwatch_panel_should_watch and dirwatch_apply_pending read of a
\* panel: the pointer (exists), the display type of its slot, is_panelized,
\* the path of cwd_vpath (NoPath: vfs_path_as_str gives NULL), and whether
\* the path is on the local file system.
Panel(e, l, z, c, loc) ==
    [exists |-> e, listing |-> l, panelized |-> z, cwd |-> c, local |-> loc]

NoPanel == Panel(FALSE, FALSE, FALSE, NoPath, FALSE)
Listing(p) == Panel(TRUE, TRUE, FALSE, p, TRUE)

OtherView == Panel(TRUE, FALSE, FALSE, 1, TRUE)     \* quick view, info, tree
Listings == {Listing(p) : p \in Paths}
PanelStates == {NoPanel, OtherView} \cup Listings

VARIABLES
    \* dirwatch.c statics
    inotify_fd, timer_fd, wd_left, wd_right, left_path, right_path,
    watcher_enabled, watcher_quiet, pending_left, pending_right,
    \* externals read by dirwatch.c
    left_panel, right_panel, dynamic_file_list_debounce_sec,
    \* kernel: inotify instance and timerfd
    watches,        \* [Paths -> 0..MaxWd]: wd watching the path, 0 if none
    next_wd,        \* next watch descriptor the instance allocates
    events,         \* unread records (their wd fields), oldest first
    it_value,       \* seconds until the timer expires, 0 when disarmed
    it_interval,    \* seconds the timer reloads on expiry, 0 for a one-shot
    expirations,    \* unread expirations of the timerfd
    \* select loop
    select_list,    \* registered channels, [fd, callback]
    ready,          \* descriptors select() reported and not yet dispatched
    \* entering a directory entry (panel.c, panel_enter_absolute_dir.c)
    cwd_vpath,      \* panel.cwd_vpath
    fname,          \* fe.fname, <<>> when no entry is being entered
    panel_cd__new_dir_vpath__captured,  \* what panel_cd was called with
    \* history
    op,             \* the last step
    calls,          \* panel_reload/repaint_screen calls of the last step
    kops            \* kernel and select-loop calls of the last step

prog == <<inotify_fd, timer_fd, wd_left, wd_right, left_path, right_path,
          watcher_enabled, watcher_quiet, pending_left, pending_right>>
ext == <<left_panel, right_panel, dynamic_file_list_debounce_sec>>
kern == <<watches, next_wd, events, it_value, it_interval, expirations>>
loop == <<select_list, ready>>
hist == <<op, calls, kops>>
nav == <<cwd_vpath, fname, panel_cd__new_dir_vpath__captured>>
vars == <<prog, ext, kern, loop, hist, nav>>

(* The state the handlers read and write, as one record.  calls and kops   *)
(* start empty: they log the calls of the step being taken.                *)
Cur ==
    [inotify_fd |-> inotify_fd, timer_fd |-> timer_fd,
     wd_left |-> wd_left, wd_right |-> wd_right,
     left_path |-> left_path, right_path |-> right_path,
     watcher_enabled |-> watcher_enabled, watcher_quiet |-> watcher_quiet,
     pending_left |-> pending_left, pending_right |-> pending_right,
     watches |-> watches, next_wd |-> next_wd, events |-> events,
     it_value |-> it_value, it_interval |-> it_interval,
     expirations |-> expirations,
     select_list |-> select_list,
     calls |-> <<>>, kops |-> <<>>]

Commit(S) ==
    /\ inotify_fd' = S.inotify_fd
    /\ timer_fd' = S.timer_fd
    /\ wd_left' = S.wd_left
    /\ wd_right' = S.wd_right
    /\ left_path' = S.left_path
    /\ right_path' = S.right_path
    /\ watcher_enabled' = S.watcher_enabled
    /\ watcher_quiet' = S.watcher_quiet
    /\ pending_left' = S.pending_left
    /\ pending_right' = S.pending_right
    /\ watches' = S.watches
    /\ next_wd' = S.next_wd
    /\ events' = S.events
    /\ it_value' = S.it_value
    /\ it_interval' = S.it_interval
    /\ expirations' = S.expirations
    /\ select_list' = S.select_list

PanelOf(s) == IF s = LEFT THEN left_panel ELSE right_panel
WdOf(S, s) == IF s = LEFT THEN S.wd_left ELSE S.wd_right
PathOf(S, s) == IF s = LEFT THEN S.left_path ELSE S.right_path
PendingOf(S, s) == IF s = LEFT THEN S.pending_left ELSE S.pending_right

KCall(name, s, arg, ret) == [call |-> name, slot |-> s, arg |-> arg, ret |-> ret]
Log(S, name, s, arg, ret) == [S EXCEPT !.kops = Append(@, KCall(name, s, arg, ret))]

(* ------------------------------ kernel --------------------------------- *)
\* inotify_rm_watch: removes the watch whose descriptor is w and queues its
\* IN_IGNORED record (dropped when the queue is full); EINVAL otherwise.
inotify_rm_watch(S, s, w) ==
    IF \E p \in Paths : S.watches[p] = w
    THEN LET S1 == [S EXCEPT
                      !.watches = [p \in Paths |-> IF @[p] = w THEN 0 ELSE @[p]],
                      !.events = IF Len(@) < MaxQueue THEN Append(@, w) ELSE @]
         IN  Log(S1, "inotify_rm_watch", s, w, 0)
    ELSE Log(S, "inotify_rm_watch", s, w, -1)

\* inotify_add_watch: the descriptor of the watch on p.  A path that is
\* already watched keeps its descriptor; a new watch gets the next one.
\* ok = FALSE is a failure (EACCES, ENOENT, ENOSPC, ...).
AddWatchRet(S, p, ok) ==
    IF ~ok THEN NoWd
    ELSE IF S.watches[p] # 0 THEN S.watches[p]
    ELSE IF S.next_wd <= MaxWd THEN S.next_wd
    ELSE NoWd

inotify_add_watch(S, s, p, ok) ==
    LET r == AddWatchRet(S, p, ok)
        S1 == IF r # NoWd /\ S.watches[p] = 0
              THEN [S EXCEPT !.watches[p] = r, !.next_wd = @ + 1]
              ELSE S
    IN  Log(S1, "inotify_add_watch", s, p, r)

\* timerfd_settime with it_value = secs and it_interval = interval: secs = 0
\* disarms.  Setting the time resets the unread expirations.
timerfd_settime(S, secs, interval) ==
    Log([S EXCEPT !.it_value = secs, !.it_interval = interval,
                  !.expirations = 0],
        "timerfd_settime", -1, secs, 0)

(* ----------------------------- select loop ----------------------------- *)
Channel(fd, cb) == [fd |-> fd, callback |-> cb]

add_select_channel(S, fd, cb) ==
    Log([S EXCEPT !.select_list = <<Channel(fd, cb)>> \o @],
        "add_select_channel", -1, fd, 0)

RECURSIVE RemoveFd(_, _)
RemoveFd(l, fd) ==
    IF l = <<>> THEN <<>>
    ELSE IF Head(l).fd = fd THEN Tail(l)
    ELSE <<Head(l)>> \o RemoveFd(Tail(l), fd)

delete_select_channel(S, fd) ==
    Log([S EXCEPT !.select_list = RemoveFd(@, fd)],
        "delete_select_channel", -1, fd, 0)

(* ------------------------------ dirwatch.c ----------------------------- *)
dirwatch_reset_paths(S) ==
    [S EXCEPT !.left_path = NoPath, !.right_path = NoPath]

dirwatch_clear_watches(S) ==
    LET S1 == IF S.inotify_fd >= 0 /\ S.wd_left >= 0
              THEN inotify_rm_watch(S, LEFT, S.wd_left) ELSE S
        S2 == IF S.inotify_fd >= 0 /\ S.wd_right >= 0
              THEN inotify_rm_watch(S1, RIGHT, S.wd_right) ELSE S1
    IN  dirwatch_reset_paths([S2 EXCEPT !.wd_left = NoWd, !.wd_right = NoWd])

\* dirwatch_disarm_timer that leaves the timer as it is.
dirwatch_disarm_timer_skipped(S) == S

dirwatch_disarm_timer(S) ==
    IF S.timer_fd >= 0 THEN timerfd_settime(S, 0, 0) ELSE S

\* secs without the coercion to at least one second.
DebounceSecs_unclamped(cfg) == cfg

DebounceSecs(cfg) == IF cfg < 1 THEN 1 ELSE cfg


dirwatch_arm_timer(S) ==
    IF S.timer_fd < 0 THEN S
    ELSE timerfd_settime(S, DebounceSecs(dynamic_file_list_debounce_sec), 0)

\* dirwatch_panel_should_watch without the test of is_panelized.
dirwatch_panel_should_watch_ignores_panelized(p) ==
    IF ~p.exists THEN NoPath
    ELSE IF ~p.listing THEN NoPath
    ELSE IF p.cwd = NoPath THEN NoPath
    ELSE IF ~p.local THEN NoPath
    ELSE p.cwd

\* The path to watch, NoPath for FALSE.
dirwatch_panel_should_watch(p) ==
    IF ~p.exists THEN NoPath
    ELSE IF ~p.listing THEN NoPath
    ELSE IF p.panelized THEN NoPath
    ELSE IF p.cwd = NoPath THEN NoPath
    ELSE IF ~p.local THEN NoPath
    ELSE p.cwd

SetBinding(S, s, w, p) ==
    IF s = LEFT THEN [S EXCEPT !.wd_left = w, !.left_path = p]
                ELSE [S EXCEPT !.wd_right = w, !.right_path = p]

\* UpdateSlot that removes the watch of an ineligible slot and keeps its
\* handle and path.
UpdateSlot_keeps_binding(S, s, ok) ==
    LET path == dirwatch_panel_should_watch(PanelOf(s))
    IN  IF path # NoPath
        THEN IF PathOf(S, s) = NoPath \/ PathOf(S, s) # path
             THEN LET S1 == IF WdOf(S, s) >= 0
                            THEN inotify_rm_watch(S, s, WdOf(S, s)) ELSE S
                      S2 == inotify_add_watch(S1, s, path, ok)
                  IN  SetBinding(S2, s, AddWatchRet(S1, path, ok), path)
             ELSE S
        ELSE IF WdOf(S, s) >= 0
             THEN inotify_rm_watch(S, s, WdOf(S, s))
             ELSE S

\* UpdateSlot without the comparison of the bound path: an eligible slot is
\* registered afresh on every update.
UpdateSlot_always_rebinds(S, s, ok) ==
    LET path == dirwatch_panel_should_watch(PanelOf(s))
    IN  IF path # NoPath
        THEN LET S1 == IF WdOf(S, s) >= 0
                       THEN inotify_rm_watch(S, s, WdOf(S, s)) ELSE S
                 S2 == inotify_add_watch(S1, s, path, ok)
             IN  SetBinding(S2, s, AddWatchRet(S1, path, ok), path)
        ELSE IF WdOf(S, s) >= 0
             THEN SetBinding(inotify_rm_watch(S, s, WdOf(S, s)), s, NoWd, NoPath)
             ELSE S

\* One of the two blocks of dirwatch_update_watches.
UpdateSlot(S, s, ok) ==
    LET path == dirwatch_panel_should_watch(PanelOf(s))
    IN  IF path # NoPath
        THEN IF PathOf(S, s) = NoPath \/ PathOf(S, s) # path
             THEN LET S1 == IF WdOf(S, s) >= 0
                            THEN inotify_rm_watch(S, s, WdOf(S, s)) ELSE S
                      S2 == inotify_add_watch(S1, s, path, ok)
                  IN  SetBinding(S2, s, AddWatchRet(S1, path, ok), path)
             ELSE S
        ELSE IF WdOf(S, s) >= 0
             THEN SetBinding(inotify_rm_watch(S, s, WdOf(S, s)), s, NoWd, NoPath)
             ELSE S

\* ok[s]: whether the inotify_add_watch of slot s, if made, succeeds.
dirwatch_update_watches(S, ok) ==
    IF ~S.watcher_enabled \/ S.inotify_fd < 0 THEN S
    ELSE UpdateSlot(UpdateSlot(S, LEFT, ok[LEFT]), RIGHT, ok[RIGHT])


\* The inner loop without the comparison of handles: any record flags both
\* slots.
ScanBuf_any_record(buf, wl, wr, need) ==
    IF buf = <<>> THEN need ELSE [left |-> TRUE, right |-> TRUE]

\* The inner loop of dirwatch_callback over the records of one buffer.
RECURSIVE ScanBuf(_, _, _, _)
ScanBuf(buf, wl, wr, need) ==
    IF buf = <<>> THEN need
    ELSE ScanBuf(Tail(buf), wl, wr,
                 [left |-> need.left \/ Head(buf) = wl,
                  right |-> need.right \/ Head(buf) = wr])

\* The outer loop: read() until it returns no data.
RECURSIVE ReadLoop(_, _, _, _)
ReadLoop(queue, wl, wr, need) ==
    IF queue = <<>> THEN need
    ELSE LET n == IF Len(queue) < BufRecords THEN Len(queue) ELSE BufRecords
         IN  ReadLoop(SubSeq(queue, n + 1, Len(queue)), wl, wr,
                      ScanBuf(SubSeq(queue, 1, n), wl, wr, need))

\* need_left, need_right after the read loop.
Needs(S) ==
    ReadLoop(S.events, S.wd_left, S.wd_right, [left |-> FALSE, right |-> FALSE])

\* The read() calls of the loop: each returns the records that fit the
\* buffer (logged as arg, their number as ret), the last one finds the queue
\* empty (EAGAIN, the descriptor is non-blocking) and ends the loop.
RECURSIVE LogReads(_, _)
LogReads(S, queue) ==
    IF queue = <<>> THEN Log(S, "read", -1, <<>>, -1)
    ELSE LET n == IF Len(queue) < BufRecords THEN Len(queue) ELSE BufRecords
         IN  LogReads(Log(S, "read", -1, SubSeq(queue, 1, n), n),
                      SubSeq(queue, n + 1, Len(queue)))

\* dirwatch_callback with an if in place of the while: one read().
dirwatch_callback_single_read(S, fd) ==
    IF fd # S.inotify_fd THEN S
    ELSE LET n == IF Len(S.events) < BufRecords THEN Len(S.events) ELSE BufRecords
             need == ScanBuf(SubSeq(S.events, 1, n), S.wd_left, S.wd_right,
                             [left |-> FALSE, right |-> FALSE])
             S1 == [Log(S, "read", -1, SubSeq(S.events, 1, n),
                        IF n = 0 THEN -1 ELSE n)
                    EXCEPT !.events = SubSeq(S.events, n + 1, Len(S.events)),
                           !.pending_left = IF need.left THEN TRUE ELSE @,
                           !.pending_right = IF need.right THEN TRUE ELSE @]
         IN  IF S1.pending_left \/ S1.pending_right
             THEN dirwatch_arm_timer(S1) ELSE S1

dirwatch_callback(S, fd) ==
    IF fd # S.inotify_fd THEN S
    ELSE LET need == Needs(S)
             S1 == [LogReads(S, S.events) EXCEPT !.events = <<>>,
                             !.pending_left = IF need.left THEN TRUE ELSE @,
                             !.pending_right = IF need.right THEN TRUE ELSE @]
         IN  IF S1.pending_left \/ S1.pending_right
             THEN dirwatch_arm_timer(S1) ELSE S1

Call(S, c) == [S EXCEPT !.calls = Append(@, c)]

\* dirwatch_apply_pending that reloads both panels when either flag is set.
dirwatch_apply_pending_reloads_both(S) ==
    LET any == S.pending_left \/ S.pending_right
        S1 == [S EXCEPT !.pending_left = FALSE, !.pending_right = FALSE]
        S2 == IF any /\ left_panel.exists
              THEN Call(S1, "panel_reload_left") ELSE S1
        S3 == IF any /\ right_panel.exists
              THEN Call(S2, "panel_reload_right") ELSE S2
        S4 == IF any THEN Call(S3, "repaint_screen") ELSE S3
    IN  dirwatch_disarm_timer(S4)

dirwatch_apply_pending(S) ==
    LET do_left == S.pending_left
        do_right == S.pending_right
        S1 == [S EXCEPT !.pending_left = FALSE, !.pending_right = FALSE]
        S2 == IF do_left /\ left_panel.exists
              THEN Call(S1, "panel_reload_left") ELSE S1
        S3 == IF do_right /\ right_panel.exists
              THEN Call(S2, "panel_reload_right") ELSE S2
        S4 == IF do_left \/ do_right THEN Call(S3, "repaint_screen") ELSE S3
    IN  dirwatch_disarm_timer(S4)

\* dirwatch_timer_callback without the quiet check.
dirwatch_timer_callback_ignores_quiet(S, fd) ==
    IF fd # S.timer_fd THEN S
    ELSE dirwatch_apply_pending([S EXCEPT !.expirations = 0])

dirwatch_timer_callback(S, fd) ==
    IF fd # S.timer_fd THEN S
    ELSE LET S1 == [S EXCEPT !.expirations = 0]      \* read (timer_fd, ...)
         IN  IF S1.watcher_quiet THEN dirwatch_disarm_timer(S1)
             ELSE dirwatch_apply_pending(S1)

\* close (inotify_fd): the instance, its watches and unread records go.
close_inotify(S) ==
    Log([S EXCEPT !.watches = [p \in Paths |-> 0], !.next_wd = 1,
                  !.events = <<>>],
        "close", -1, S.inotify_fd, 0)

close_timer(S) ==
    Log([S EXCEPT !.it_value = 0, !.it_interval = 0, !.expirations = 0],
        "close", -1, S.timer_fd, 0)

\* ifd_ok, tfd_ok: whether inotify_init1 and timerfd_create succeed.
inotify_init1(S, ifd_ok) ==
    LET r == IF ifd_ok THEN IFD ELSE NoFd
    IN  Log([S EXCEPT !.inotify_fd = r], "inotify_init1", -1, 0, r)

timerfd_create(S, tfd_ok) ==
    LET r == IF tfd_ok THEN TFD ELSE NoFd
    IN  Log([S EXCEPT !.timer_fd = r], "timerfd_create", -1, 0, r)

\* The disable branch without the block that unregisters and closes the timer.
DisableBody_leaves_timer(S) ==
    IF S.inotify_fd >= 0
    THEN [close_inotify(dirwatch_clear_watches(
              delete_select_channel(S, S.inotify_fd)))
          EXCEPT !.inotify_fd = NoFd]
    ELSE S

DisableBody(S) ==
    LET S1 == IF S.inotify_fd >= 0
              THEN [close_inotify(dirwatch_clear_watches(
                        delete_select_channel(S, S.inotify_fd)))
                    EXCEPT !.inotify_fd = NoFd]
              ELSE S
    IN  IF S1.timer_fd >= 0
        THEN [close_timer(delete_select_channel(S1, S1.timer_fd))
              EXCEPT !.timer_fd = NoFd]
        ELSE S1

EnableTimer(S, tfd_ok) ==
    IF S.timer_fd < 0
    THEN LET S1 == timerfd_create(S, tfd_ok)
         IN  IF S1.timer_fd >= 0
             THEN add_select_channel(S1, S1.timer_fd, "dirwatch_timer_callback")
             ELSE S1
    ELSE S

EnableBody(S, ifd_ok, tfd_ok, ok) ==
    LET S1 == IF S.inotify_fd < 0 THEN inotify_init1(S, ifd_ok) ELSE S
    IN  IF S1.inotify_fd < 0
        THEN [S1 EXCEPT !.watcher_enabled = FALSE]
        ELSE LET S2 == IF S.inotify_fd < 0
                       THEN add_select_channel(S1, S1.inotify_fd, "dirwatch_callback")
                       ELSE S1
             IN  dirwatch_update_watches(EnableTimer(S2, tfd_ok), ok)

\* dirwatch_set_enabled without the test for a repeated call: the enable or
\* disable sequence runs every time.
dirwatch_set_enabled_always_runs(S, enabled, ifd_ok, tfd_ok, ok) ==
    LET S1 == [S EXCEPT !.watcher_enabled = enabled]
    IN  IF ~enabled THEN DisableBody(S1)
        ELSE EnableBody(S1, ifd_ok, tfd_ok, ok)

dirwatch_set_enabled(S, enabled, ifd_ok, tfd_ok, ok) ==
    IF enabled = S.watcher_enabled
    THEN IF enabled THEN dirwatch_update_watches(S, ok) ELSE S
    ELSE LET S1 == [S EXCEPT !.watcher_enabled = enabled]
         IN  IF ~enabled THEN DisableBody(S1)
             ELSE EnableBody(S1, ifd_ok, tfd_ok, ok)

\* dirwatch_set_quiet without the test of watcher_enabled.
dirwatch_set_quiet_while_disabled(S, quiet) ==
    IF S.watcher_quiet = quiet THEN S
    ELSE LET S1 == [S EXCEPT !.watcher_quiet = quiet]
         IN  IF ~S1.watcher_quiet /\ (S1.pending_left \/ S1.pending_right)
             THEN dirwatch_apply_pending(S1) ELSE S1

dirwatch_set_quiet(S, quiet) ==
    IF ~S.watcher_enabled \/ S.watcher_quiet = quiet THEN S
    ELSE LET S1 == [S EXCEPT !.watcher_quiet = quiet]
         IN  IF ~S1.watcher_quiet /\ (S1.pending_left \/ S1.pending_right)
             THEN dirwatch_apply_pending(S1) ELSE S1

\* The panel argument is not used.
dirwatch_panel_dir_changed(S, panel, ok) ==
    IF ~S.watcher_enabled THEN S
    ELSE dirwatch_update_watches(S, ok)


(* --------------------- entering a directory entry ---------------------- *)
\* Strings are sequences of characters.  Entry names and directory paths
\* have no empty component and no trailing separator.
SEP == "/"
NameChars == {"t", "d"}
Strs == UNION {[1..k -> NameChars \cup {SEP}] : k \in 1..MaxName}
Canonical(str) ==
    /\ \A i \in 1..(Len(str) - 1) : ~(str[i] = SEP /\ str[i + 1] = SEP)
    /\ str[Len(str)] = SEP => Len(str) = 1
EntryNames == {str \in Strs : Canonical(str)}
Dirs == {str \in EntryNames : str[1] = SEP}

\* vfs_path_t: the relative flag and the path elements; NoVpath is NULL.
Vpath(rel, elems) == [null |-> FALSE, relative |-> rel, elems |-> elems]
NoVpath == [null |-> TRUE, relative |-> FALSE, elems |-> <<>>]

\* Length of the name that starts str: up to the first separator.
RunLen(str) ==
    IF \E i \in DOMAIN str : str[i] = SEP
    THEN (CHOOSE i \in DOMAIN str :
            str[i] = SEP /\ \A j \in 1..(i - 1) : str[j] # SEP) - 1
    ELSE Len(str)

RECURSIVE Components(_)
Components(str) ==
    IF str = <<>> THEN <<>>
    ELSE IF Head(str) = SEP THEN Components(Tail(str))
    ELSE <<SubSeq(str, 1, RunLen(str))>>
           \o Components(SubSeq(str, RunLen(str) + 1, Len(str)))

RECURSIVE JoinElems(_)
JoinElems(elems) ==
    IF elems = <<>> THEN <<>>
    ELSE IF Len(elems) = 1 THEN elems[1]
    ELSE elems[1] \o <<SEP>> \o JoinElems(Tail(elems))

vfs_path_from_str(str) == Vpath(str[1] # SEP, Components(str))

vfs_path_as_str(v) ==
    IF v.relative THEN JoinElems(v.elems) ELSE <<SEP>> \o JoinElems(v.elems)

vfs_path_append_new(v, name) == Vpath(v.relative, v.elems \o Components(name))

\* The mock of the test: panel_cd keeps a clone of the path it is called with.
panel_cd(new_dir_vpath) == new_dir_vpath

\* do_enter_on_file_entry that joins every name with the panel's directory.
do_enter_on_file_entry_always_prefixes(cwd, name) ==
    panel_cd(vfs_path_append_new(cwd, name))

\* do_enter_on_file_entry for a directory entry: the path handed to panel_cd.
do_enter_on_file_entry(cwd, name) ==
    IF name[1] = SEP
    THEN panel_cd(vfs_path_from_str(name))
    ELSE panel_cd(vfs_path_append_new(cwd, name))


(* ------------------------------- actions ------------------------------- *)
OkChoices == [Slots -> BOOLEAN]
AllOk == {[s \in Slots |-> TRUE]}

\* The state after the static initialisers; PS and Cfgs are the panels and
\* the configured debounce intervals the run starts from.
InitIn(PS, Cfgs) ==
    /\ inotify_fd = NoFd /\ timer_fd = NoFd
    /\ wd_left = NoWd /\ wd_right = NoWd
    /\ left_path = NoPath /\ right_path = NoPath
    /\ watcher_enabled = FALSE /\ watcher_quiet = FALSE
    /\ pending_left = FALSE /\ pending_right = FALSE
    /\ left_panel \in PS /\ right_panel \in PS
    /\ dynamic_file_list_debounce_sec \in Cfgs
    /\ watches = [p \in Paths |-> 0] /\ next_wd = 1 /\ events = <<>>
    /\ it_value = 0 /\ it_interval = 0 /\ expirations = 0
    /\ select_list = <<>> /\ ready = {}
    /\ op = [name |-> "init", arg |-> 0]
    /\ calls = <<>> /\ kops = <<>>

\* No directory entry is being entered.
NoEnter ==
    /\ cwd_vpath = NoVpath /\ fname = <<>>
    /\ panel_cd__new_dir_vpath__captured = NoVpath

\* The fixture of the tests: a panel in some directory, an entry name, and
\* panel_cd not called yet.
EnterInputs ==
    /\ cwd_vpath \in {vfs_path_from_str(d) : d \in Dirs}
    /\ fname \in EntryNames
    /\ panel_cd__new_dir_vpath__captured = NoVpath

Init == InitIn(PanelStates, DebounceChoices) /\ EnterInputs

\* The application calls the watcher between two rounds of the select loop.
Idle == ready = {}

\* The history records the last step that changed something or called out.
Record(name, arg, R) ==
    /\ op' = [name |-> name, arg |-> arg]
    /\ calls' = R.calls
    /\ kops' = R.kops

RecordIfActed(name, arg, R) ==
    IF R = Cur THEN UNCHANGED hist ELSE Record(name, arg, R)

Env == op' = [name |-> "env", arg |-> 0] /\ calls' = <<>> /\ kops' = <<>>

\* Whether dirwatch_update_watches would call inotify_add_watch for slot s.
WouldAdd(s) ==
    LET path == dirwatch_panel_should_watch(PanelOf(s))
    IN  path # NoPath /\ (PathOf(Cur, s) = NoPath \/ PathOf(Cur, s) # path)

\* The outcomes in Ok of the inotify_add_watch calls an update makes now.
AddOutcomes(Ok) == {ok \in Ok : \A s \in Slots : ~WouldAdd(s) => ok[s]}

\* IfdOk, TfdOk, Ok: the outcomes of inotify_init1, timerfd_create and
\* inotify_add_watch the environment can produce.
SetEnabledIn(enabled, IfdOk, TfdOk, Ok) ==
    /\ Idle
    /\ \E ifd_ok \in IF enabled /\ ~watcher_enabled THEN IfdOk ELSE {TRUE},
          tfd_ok \in IF enabled /\ ~watcher_enabled THEN TfdOk ELSE {TRUE},
          ok \in IF enabled THEN AddOutcomes(Ok) ELSE AllOk :
          LET R == dirwatch_set_enabled(Cur, enabled, ifd_ok, tfd_ok, ok)
          IN  /\ Commit(R)
              /\ RecordIfActed("set_enabled", IF enabled THEN 1 ELSE 0, R)
    /\ UNCHANGED <<ext, ready, nav>>

SetEnabled(enabled) == SetEnabledIn(enabled, BOOLEAN, BOOLEAN, OkChoices)

SetQuiet(quiet) ==
    /\ Idle
    /\ LET R == dirwatch_set_quiet(Cur, quiet)
       IN  /\ Commit(R)
           /\ RecordIfActed("set_quiet", IF quiet THEN 1 ELSE 0, R)
    /\ UNCHANGED <<ext, ready, nav>>

PanelDirChangedIn(panel, Ok) ==
    /\ Idle
    /\ \E ok \in AddOutcomes(Ok) :
          LET R == dirwatch_panel_dir_changed(Cur, panel, ok)
          IN  /\ Commit(R)
              /\ RecordIfActed("panel_dir_changed", 0, R)
    /\ UNCHANGED <<ext, ready, nav>>

PanelDirChanged(panel) == PanelDirChangedIn(panel, OkChoices)

\* select(): the registered descriptors that are readable now.
Readable(fd) ==
    \/ fd = inotify_fd /\ fd # NoFd /\ events # <<>>
    \/ fd = timer_fd /\ fd # NoFd /\ expirations > 0

Registered == {select_list[i] : i \in DOMAIN select_list}

Poll ==
    /\ Idle
    /\ ready' = {c.fd : c \in {d \in Registered : Readable(d.fd)}}
    /\ ready' # {}
    /\ op' = [name |-> "select", arg |-> 0]
    /\ calls' = <<>> /\ kops' = <<>>
    /\ UNCHANGED <<prog, ext, kern, select_list, nav>>

\* The loop calls the callback of a reported descriptor, in any order.
OnReadable ==
    \E c \in Registered :
      /\ c.fd \in ready
      /\ c.callback = "dirwatch_callback"
      /\ ready' = ready \ {c.fd}
      /\ LET R == dirwatch_callback(Cur, c.fd)
         IN  Commit(R) /\ Record("on_readable", c.fd, R)
      /\ UNCHANGED <<ext, nav>>

TimerExpiry ==
    \E c \in Registered :
      /\ c.fd \in ready
      /\ c.callback = "dirwatch_timer_callback"
      /\ ready' = ready \ {c.fd}
      /\ LET R == dirwatch_timer_callback(Cur, c.fd)
         IN  Commit(R) /\ Record("timer_expiry", c.fd, R)
      /\ UNCHANGED <<ext, nav>>

\* One second passes.
Tick ==
    /\ Idle
    /\ it_value > 0
    /\ it_value' = IF it_value = 1 THEN it_interval ELSE it_value - 1
    /\ expirations' = IF it_value = 1 THEN 1 ELSE expirations
    /\ Env
    /\ UNCHANGED <<prog, ext, watches, next_wd, events, it_interval, loop, nav>>

\* Something changes in the watched directory p: the kernel queues a record.
FsChange(p) ==
    /\ Idle
    /\ watches[p] # 0
    /\ Len(events) < MaxQueue
    /\ events' = Append(events, watches[p])
    /\ Env
    /\ UNCHANGED <<prog, ext, watches, next_wd, it_value, it_interval, expirations, loop,
                 nav>>

\* The kernel queues IN_Q_OVERFLOW: records of a live watch arrive faster than
\* the queue takes them.
QueueOverflow ==
    /\ Idle
    /\ inotify_fd # NoFd
    /\ \E p \in Paths : watches[p] # 0
    /\ Len(events) < MaxQueue
    /\ events' = Append(events, OVERFLOW_WD)
    /\ Env
    /\ UNCHANGED <<prog, ext, watches, next_wd, it_value, it_interval, expirations, loop,
                 nav>>

\* The file manager changes a panel: navigation, another view, a vfs.
SetPanel(s, ps) ==
    /\ Idle
    /\ ps # PanelOf(s)
    /\ left_panel' = IF s = LEFT THEN ps ELSE left_panel
    /\ right_panel' = IF s = RIGHT THEN ps ELSE right_panel
    /\ Env
    /\ UNCHANGED <<prog, dynamic_file_list_debounce_sec, kern, loop, nav>>

\* The user changes the debounce interval in the layout settings.
SetDebounce(cfg) ==
    /\ Idle
    /\ cfg # dynamic_file_list_debounce_sec
    /\ dynamic_file_list_debounce_sec' = cfg
    /\ Env
    /\ UNCHANGED <<prog, left_panel, right_panel, kern, loop, nav>>

\* Enter on the directory entry: do_enter_on_file_entry calls panel_cd.
EnterDir ==
    /\ fname # <<>>
    /\ panel_cd__new_dir_vpath__captured = NoVpath
    /\ panel_cd__new_dir_vpath__captured' = do_enter_on_file_entry(cwd_vpath, fname)
    /\ op' = [name |-> "enter", arg |-> 0]
    /\ calls' = <<>> /\ kops' = <<>>
    /\ UNCHANGED <<prog, ext, kern, loop, cwd_vpath, fname>>

Next ==
    \/ \E b \in BOOLEAN : SetEnabled(b)
    \/ \E q \in BOOLEAN : SetQuiet(q)
    \/ \E s \in Slots : PanelDirChanged(s)
    \/ Poll
    \/ OnReadable
    \/ TimerExpiry
    \/ Tick
    \/ \E p \in Paths : FsChange(p)
    \/ QueueOverflow
    \/ \E s \in Slots, ps \in PanelStates : SetPanel(s, ps)
    \/ EnterDir
    \/ \E cfg \in DebounceChoices : SetDebounce(cfg)

Spec == Init /\ [][Next]_vars

(* The watch registry: panels that navigate and change view, every outcome *)
(* of inotify_init1 and inotify_add_watch, no passing of time.             *)
WatchPanels == {OtherView} \cup Listings

InitWatch == InitIn(WatchPanels, {MaxDebounce}) /\ NoEnter

NextWatch ==
    \/ \E b \in BOOLEAN : SetEnabledIn(b, BOOLEAN, {TRUE}, OkChoices)
    \/ \E s \in Slots : PanelDirChanged(s)
    \/ Poll
    \/ OnReadable
    \/ \E p \in Paths : FsChange(p)
    \/ QueueOverflow
    \/ \E s \in Slots, ps \in WatchPanels : SetPanel(s, ps)

SpecWatch == InitWatch /\ [][NextWatch]_vars

(* The debounce controller: time passes, quiet mode, panels that come and  *)
(* go, watch registration always succeeds.                                 *)
DebouncePanels == {NoPanel} \cup Listings

InitDebounce == InitIn(DebouncePanels, {MaxDebounce}) /\ NoEnter

NextDebounce ==
    \/ \E b \in BOOLEAN : SetEnabledIn(b, BOOLEAN, BOOLEAN, AllOk)
    \/ \E q \in BOOLEAN : SetQuiet(q)
    \/ \E s \in Slots : PanelDirChangedIn(s, AllOk)
    \/ Poll
    \/ OnReadable
    \/ TimerExpiry
    \/ Tick
    \/ \E p \in Paths : FsChange(p)
    \/ \E s \in Slots, ps \in DebouncePanels : SetPanel(s, ps)

SpecDebounce == InitDebounce /\ [][NextDebounce]_vars

(* Entering a directory entry: the panel's directory and the entry's name   *)
(* are drawn at the start, the watcher stays disabled.                     *)
InitEnter == InitIn({NoPanel}, {MaxDebounce}) /\ EnterInputs

NextEnter == EnterDir

SpecEnter == InitEnter /\ [][NextEnter]_vars

(* The eligibility policy: panels of every kind (other views, panelized    *)
(* listings, no path, non-local file systems), every registration succeeds.*)
AllPanels ==
    {NoPanel} \cup {Panel(TRUE, l, z, c, loc) :
                      l \in BOOLEAN, z \in BOOLEAN,
                      c \in {NoPath} \cup Paths, loc \in BOOLEAN}

InitPolicy == InitIn(AllPanels, {MaxDebounce}) /\ NoEnter

NextPolicy ==
    \/ \E b \in BOOLEAN : SetEnabledIn(b, {TRUE}, {TRUE}, AllOk)
    \/ \E s \in Slots : PanelDirChangedIn(s, AllOk)
    \/ \E s \in Slots, ps \in AllPanels : SetPanel(s, ps)

SpecPolicy == InitPolicy /\ [][NextPolicy]_vars

(* The debounce timer: every configured interval, also zero and negative   *)
(* ones, changed while the watcher runs; one listing, nothing fails.       *)
TimerPanels == {NoPanel, Listing(1)}

InitTimer == InitIn(TimerPanels, DebounceChoices) /\ NoEnter

NextTimer ==
    \/ \E b \in BOOLEAN : SetEnabledIn(b, {TRUE}, {TRUE}, AllOk)
    \/ \E q \in BOOLEAN : SetQuiet(q)
    \/ Poll
    \/ OnReadable
    \/ TimerExpiry
    \/ Tick
    \/ \E p \in Paths : FsChange(p)
    \/ \E cfg \in DebounceChoices : SetDebounce(cfg)

SpecTimer == InitTimer /\ [][NextTimer]_vars

TypeOK ==
    /\ inotify_fd \in {NoFd, IFD} /\ timer_fd \in {NoFd, TFD}
    /\ wd_left \in {NoWd} \cup Wds /\ wd_right \in {NoWd} \cup Wds
    /\ left_path \in {NoPath} \cup Paths /\ right_path \in {NoPath} \cup Paths
    /\ it_value \in 0..DebounceSecs(MaxDebounce)
    /\ it_interval = 0
    /\ expirations \in 0..1
    /\ next_wd \in 1..(MaxWd + 1)
    /\ Len(events) <= MaxQueue


(* ------------------------- vocabulary of the claims -------------------- *)
ReloadOf(s) == IF s = LEFT THEN "panel_reload_left" ELSE "panel_reload_right"
Count(seq, x) == Cardinality({i \in DOMAIN seq : seq[i] = x})
Pending(s) == PendingOf(Cur, s)
PendingAfter(s) == IF s = LEFT THEN pending_left' ELSE pending_right'
WdAfter(s) == IF s = LEFT THEN wd_left' ELSE wd_right'
PathAfter(s) == IF s = LEFT THEN left_path' ELSE right_path'
AnyPending == pending_left \/ pending_right
Flagged(s) == IF s = LEFT THEN Needs(Cur).left ELSE Needs(Cur).right
TimerIdleAfter == it_value' = 0 /\ expirations' = 0
Bit(b) == IF b THEN 1 ELSE 0

\* An apply as the specification describes it: one reload per flagged slot,
\* one repaint if a slot was reloaded.
AppliedAllFlagged(cs) ==
    /\ \A s \in Slots : Count(cs, ReloadOf(s)) = Bit(Pending(s))
    /\ Count(cs, "repaint_screen") = Bit(AnyPending)
    /\ Len(cs) = Bit(pending_left) + Bit(pending_right) + Bit(AnyPending)

\* An apply as the code performs it: a flagged slot whose panel is gone is
\* skipped, the repaint follows whenever a flag was set.
AppliedExisting(cs) ==
    /\ \A s \in Slots :
          Count(cs, ReloadOf(s)) = Bit(Pending(s) /\ PanelOf(s).exists)
    /\ Count(cs, "repaint_screen") = Bit(AnyPending)
    /\ Len(cs) = Bit(pending_left /\ left_panel.exists)
                   + Bit(pending_right /\ right_panel.exists) + Bit(AnyPending)

(* ------------------------------- C1 ------------------------------------ *)
\* C1 (coalescing): with quiet off, every on_readable that flags a slot
\* restarts the debounce interval; a timer-driven apply runs only when the
\* programmed interval has fully elapsed (the timer has expired and was not
\* restarted since); an apply reloads a slot at most once.
Claim_C1 ==
    [][/\ (op'.name = "on_readable" /\ ~watcher_quiet
             /\ \E s \in Slots : Flagged(s))
          => (it_value' = DebounceSecs(dynamic_file_list_debounce_sec)
                /\ expirations' = 0)
       /\ (op'.name = "timer_expiry" /\ ~watcher_quiet /\ calls' # <<>>)
          => (expirations > 0 /\ it_value = 0)
       /\ \A s \in Slots : Count(calls', ReloadOf(s)) <= 1]_vars

(* ------------------------------- C2 ------------------------------------ *)
QuietKeepsSilent ==
    /\ (watcher_quiet /\ watcher_quiet') => calls' = <<>>
    /\ (watcher_quiet /\ op'.name = "on_readable")
          => \A s \in Slots : PendingAfter(s) = (Pending(s) \/ Flagged(s))
    /\ (watcher_quiet /\ op'.name = "timer_expiry")
          => (/\ \A s \in Slots : PendingAfter(s) = Pending(s)
              /\ TimerIdleAfter)

\* C2 (quiet accumulation), as claimed: while quiet is on no operation calls
\* reload or repaint, records still set the flags, a timer expiry only
\* disarms; turning quiet off performs exactly one apply that reloads every
\* flagged slot.
Claim_C2 ==
    [][/\ QuietKeepsSilent
       /\ (watcher_quiet /\ ~watcher_quiet')
          => (AppliedAllFlagged(calls')
                /\ ~pending_left' /\ ~pending_right')]_vars

\* C2, amended: the one apply reloads every flagged slot whose panel still
\* exists and repaints once if any flag was set.
Thm_C2 ==
    [][/\ QuietKeepsSilent
       /\ (watcher_quiet /\ ~watcher_quiet')
          => (AppliedExisting(calls')
                /\ ~pending_left' /\ ~pending_right')]_vars

\* Quiet was turned off with both flags accumulated: both reloads, one repaint.
Wit_C2 ==
    /\ op = [name |-> "set_quiet", arg |-> 0]
    /\ ~watcher_quiet
    /\ Count(calls, "panel_reload_left") = 1
    /\ Count(calls, "panel_reload_right") = 1
    /\ Count(calls, "repaint_screen") = 1

(* ------------------------------- C3 ------------------------------------ *)
\* C3 (disabled invariant): while the watcher is disabled both descriptors
\* are absent, both bindings are cleared and both pending flags are clear.
Claim_C3 ==
    ~watcher_enabled =>
        /\ inotify_fd = NoFd /\ timer_fd = NoFd
        /\ wd_left = NoWd /\ wd_right = NoWd
        /\ left_path = NoPath /\ right_path = NoPath
        /\ ~pending_left /\ ~pending_right

(* ------------------------------- C4 ------------------------------------ *)
\* C4 (shared-path fan-out): slots bound to the same path hold the same
\* watch identifier, one drained record of that path flags both, and the
\* apply that follows reloads both.
Claim_C4 ==
    [][/\ (left_path # NoPath /\ left_path = right_path)
          => wd_left = wd_right
       /\ (op'.name = "on_readable"
             /\ left_path # NoPath /\ left_path = right_path
             /\ \E i \in DOMAIN events : events[i] = watches[left_path])
          => (pending_left' /\ pending_right')
       /\ (calls' # <<>> /\ pending_left /\ pending_right)
          => (Count(calls', "panel_reload_left") = 1
                /\ Count(calls', "panel_reload_right") = 1)]_vars

(* ------------------------------- C5 ------------------------------------ *)
\* C5: set_quiet(false) while quiet is on clears quiet and, if a flag is
\* set, applies inside the call: every flagged slot is reloaded once, the
\* flags are cleared and the timer is disarmed; when quiet is already off the
\* call changes nothing.
Claim_C5 ==
    Idle =>
      LET R == dirwatch_set_quiet(Cur, FALSE)
      IN  IF watcher_quiet
          THEN /\ ~R.watcher_quiet
               /\ AppliedAllFlagged(R.calls)
               /\ ~R.pending_left /\ ~R.pending_right
               /\ AnyPending => (R.it_value = 0 /\ R.expirations = 0)
          ELSE R = Cur

(* ------------------------------- C6 ------------------------------------ *)
\* C6 (cancellation): enable(false) discards the pending flags, and the
\* watcher comes out of enable(true) with no flag set, so that a reload after
\* re-enabling stems from a record drained after it.
Claim_C6 ==
    [][/\ (watcher_enabled /\ ~watcher_enabled')
          => (~pending_left' /\ ~pending_right')
       /\ (~watcher_enabled /\ watcher_enabled')
          => (~pending_left' /\ ~pending_right')]_vars

(* ------------------------------- C7 ------------------------------------ *)
ApplyLeavesClean == ~pending_left' /\ ~pending_right' /\ TimerIdleAfter

\* C7 (apply on timer expiry, quiet off), as claimed: reload is called for
\* exactly the flagged slots, once each; repaint once if a slot was reloaded
\* and not otherwise; afterwards no flag is set and the timer is idle.
Claim_C7 ==
    [][(op'.name = "timer_expiry" /\ ~watcher_quiet)
          => (/\ AppliedAllFlagged(calls')
              /\ Count(calls', "repaint_screen")
                   = Bit(\E s \in Slots : Count(calls', ReloadOf(s)) > 0)
              /\ ApplyLeavesClean)]_vars

\* C7, amended: reload is called for exactly the flagged slots whose panel
\* exists, once each; repaint once if a flag was set and not otherwise;
\* afterwards no flag is set and the timer is idle.
Thm_C7 ==
    [][(op'.name = "timer_expiry" /\ ~watcher_quiet)
          => (AppliedExisting(calls') /\ ApplyLeavesClean)]_vars

\* The scenario of the claim: two slots with distinct handles, a record for
\* the left one only, the timer expired: left reload, one repaint.
Wit_C7 ==
    /\ op.name = "timer_expiry"
    /\ wd_left >= 0 /\ wd_right >= 0 /\ wd_left # wd_right
    /\ calls = <<"panel_reload_left", "repaint_screen">>
    /\ ~pending_left /\ ~pending_right /\ it_value = 0

(* ------------------------------- C8 ------------------------------------ *)
IsUpdate ==
    /\ watcher_enabled
    /\ \/ op'.name = "panel_dir_changed"
       \/ op'.name = "set_enabled" /\ op'.arg = 1

\* C8 (ineligible slot): a registry update for a slot that holds a handle
\* and whose panel is not eligible removes the kernel watch and clears the
\* binding; while a slot holds no handle, draining records that stem from
\* watched paths never sets its flag.
Thm_C8 ==
    [][\A s \in Slots :
         /\ (IsUpdate /\ WdOf(Cur, s) >= 0
               /\ dirwatch_panel_should_watch(PanelOf(s)) = NoPath)
            => (/\ WdAfter(s) = NoWd /\ PathAfter(s) = NoPath
                /\ \A p \in Paths : watches'[p] # WdOf(Cur, s))
         /\ (op'.name = "on_readable" /\ WdOf(Cur, s) = NoWd
               /\ \A i \in DOMAIN events : events[i] # OVERFLOW_WD)
            => PendingAfter(s) = Pending(s)]_vars

\* The left panel left the listing view and the update removed its watch.
Wit_C8 ==
    /\ op.name = "panel_dir_changed"
    /\ left_panel = OtherView
    /\ wd_left = NoWd /\ left_path = NoPath
    /\ \E i \in DOMAIN kops :
          /\ kops[i].call = "inotify_rm_watch"
          /\ kops[i].slot = LEFT /\ kops[i].ret = 0

(* ------------------------------- C9 ------------------------------------ *)
WatchCalls(ks, s) ==
    {i \in DOMAIN ks : /\ ks[i].slot = s
                       /\ ks[i].call \in {"inotify_rm_watch", "inotify_add_watch"}}

\* C9 (idempotent rebind): when the registry update runs twice in a row and
\* a slot's panel is eligible, the second run removes and adds no kernel
\* watch for that slot and leaves its handle and path as the first run left
\* them.
Thm_C9 ==
    (Idle /\ watcher_enabled) =>
      \A s \in Slots, ok1 \in OkChoices, ok2 \in OkChoices :
        dirwatch_panel_should_watch(PanelOf(s)) # NoPath =>
          LET R1 == dirwatch_update_watches(Cur, ok1)
              R2 == dirwatch_update_watches(R1, ok2)
          IN  /\ WdOf(R2, s) = WdOf(R1, s)
              /\ PathOf(R2, s) = PathOf(R1, s)
              /\ WatchCalls(R2.kops, s) = WatchCalls(R1.kops, s)

\* An update ran while the left slot was bound to its panel's path: no
\* watch call for the left slot, the right one was rebound.
Wit_C9 ==
    /\ op.name = "panel_dir_changed"
    /\ wd_left >= 0
    /\ left_path = dirwatch_panel_should_watch(left_panel)
    /\ WatchCalls(kops, LEFT) = {}
    /\ WatchCalls(kops, RIGHT) # {}

(* ------------------------------- C10 ----------------------------------- *)
CreationFailed(ks) ==
    \E i \in DOMAIN ks : /\ ks[i].call \in {"inotify_init1", "timerfd_create"}
                         /\ ks[i].ret = NoFd

\* C10 (failed enable): when inotify_init1 or timerfd_create fails during
\* enable(true) the watcher ends disabled, with no descriptor open or
\* registered and no watch.
Claim_C10 ==
    [][(op'.name = "set_enabled" /\ op'.arg = 1 /\ CreationFailed(kops'))
          => (/\ ~watcher_enabled'
              /\ inotify_fd' = NoFd /\ timer_fd' = NoFd
              /\ select_list' = <<>>
              /\ \A p \in Paths : watches'[p] = 0)]_vars

(* ------------------------------- C11 ----------------------------------- *)
\* The debounce controller under the scheduling the claim assumes: the select
\* loop keeps polling its registered descriptors and dispatching what it
\* reported, and time passes while the timer is armed.
SpecLive ==
    /\ InitDebounce /\ [][NextDebounce]_vars
    /\ WF_vars(Poll) /\ WF_vars(OnReadable) /\ WF_vars(TimerExpiry)
    /\ WF_vars(Tick)

\* An armed timer eventually expires or is disarmed: it is not restarted
\* for ever.
TimerExpires == [](it_value > 0 => <>(it_value = 0))

\* C11 (no stuck state): provided an armed timer eventually expires, from
\* every state where the watcher is enabled, quiet is off and a pending flag
\* is set, the flags are eventually applied, or the watcher is disabled, or
\* quiet is turned on (which defers the apply).
Claim_C11 ==
    TimerExpires =>
      ((watcher_enabled /\ ~watcher_quiet /\ AnyPending)
         ~> (~AnyPending \/ ~watcher_enabled \/ watcher_quiet))

(* ------------------------------- C12 ----------------------------------- *)
AddFailed(ks, s) ==
    \E i \in DOMAIN ks : /\ ks[i].call = "inotify_add_watch"
                         /\ ks[i].slot = s /\ ks[i].ret = NoWd

AddCalled(ks, s) ==
    \E i \in DOMAIN ks : ks[i].call = "inotify_add_watch" /\ ks[i].slot = s

\* C12 (watch registration failure): an update whose inotify_add_watch for a
\* slot fails leaves the slot without handle and without path and the watcher
\* enabled; and whenever an eligible slot holds no handle, the next registry
\* update calls inotify_add_watch for it again, whatever its stored path.
Claim_C12 ==
    [][\A s \in Slots :
         /\ AddFailed(kops', s)
            => (WdAfter(s) = NoWd /\ PathAfter(s) = NoPath /\ watcher_enabled')
         /\ (Idle /\ watcher_enabled /\ inotify_fd >= 0 /\ WdOf(Cur, s) = NoWd
               /\ dirwatch_panel_should_watch(PanelOf(s)) # NoPath)
            => \A ok \in OkChoices :
                 AddCalled(dirwatch_update_watches(Cur, ok).kops, s)]_vars

(* ------------------------------- C13 ----------------------------------- *)
\* C13 (set_quiet(true)): with quiet already on the call changes nothing;
\* otherwise, whatever the rest of the state, it sets quiet, leaves the
\* timer, both pending flags and both bindings as they are and calls neither
\* reload nor repaint.
Claim_C13 ==
    Idle =>
      LET R == dirwatch_set_quiet(Cur, TRUE)
      IN  IF watcher_quiet
          THEN R = Cur
          ELSE /\ R.watcher_quiet
               /\ R.it_value = it_value /\ R.expirations = expirations
               /\ R.pending_left = pending_left /\ R.pending_right = pending_right
               /\ \A s \in Slots : /\ WdOf(R, s) = WdOf(Cur, s)
                                   /\ PathOf(R, s) = PathOf(Cur, s)
               /\ R.calls = <<>>

(* ------------------------------- C14 ----------------------------------- *)
Other(s) == IF s = LEFT THEN RIGHT ELSE LEFT

\* C14 (notify_target_dir_changed(slot)): a no-op while the watcher is
\* disabled; while enabled it leaves the handle and the path of the slot it
\* was not called for, both pending flags, quiet and the timer unchanged,
\* whatever the other slot's panel shows by now.
Claim_C14 ==
    Idle =>
      \A s \in Slots, ok \in OkChoices :
        LET R == dirwatch_panel_dir_changed(Cur, s, ok)
        IN  IF ~watcher_enabled
            THEN R = Cur
            ELSE /\ WdOf(R, Other(s)) = WdOf(Cur, Other(s))
                 /\ PathOf(R, Other(s)) = PathOf(Cur, Other(s))
                 /\ R.pending_left = pending_left
                 /\ R.pending_right = pending_right
                 /\ R.watcher_quiet = watcher_quiet
                 /\ R.it_value = it_value /\ R.expirations = expirations

(* ------------------------------- C15 ----------------------------------- *)
DescriptorCalls(ks) ==
    {i \in DOMAIN ks :
       ks[i].call \in {"inotify_init1", "timerfd_create", "close",
                       "add_select_channel", "delete_select_channel"}}

\* C15 (repeated enable): enable(b) called while enabled = b creates, closes,
\* registers and unregisters no descriptor and leaves the pending flags, quiet
\* and the timer unchanged; for b = FALSE it changes nothing at all, for
\* b = TRUE it does what the registry update for both slots does and nothing
\* else.
Thm_C15 ==
    Idle =>
      \A ifd_ok \in BOOLEAN, tfd_ok \in BOOLEAN, ok \in OkChoices :
        LET R == dirwatch_set_enabled(Cur, watcher_enabled, ifd_ok, tfd_ok, ok)
        IN  /\ DescriptorCalls(R.kops) = {}
            /\ R.inotify_fd = inotify_fd /\ R.timer_fd = timer_fd
            /\ R.select_list = select_list
            /\ R.watcher_enabled = watcher_enabled
            /\ R.pending_left = pending_left /\ R.pending_right = pending_right
            /\ R.watcher_quiet = watcher_quiet
            /\ R.it_value = it_value /\ R.expirations = expirations
            /\ R.calls = <<>>
            /\ ~watcher_enabled => R = Cur
            /\ watcher_enabled => R = dirwatch_update_watches(Cur, ok)

\* enable(true) was called on the enabled watcher after the left panel had
\* moved: no descriptor call, the left slot was rebound.
Wit_C15 ==
    /\ op = [name |-> "set_enabled", arg |-> 1]
    /\ DescriptorCalls(kops) = {}
    /\ WatchCalls(kops, LEFT) # {}
    /\ watcher_enabled /\ wd_left >= 0

(* ------------------------------- C16 ----------------------------------- *)
\* C16 (entering a directory entry): panel_cd is called with the entry's own
\* name when the name is absolute, and with the panel's directory, a
\* separator (none after the root) and the name when it is relative.
Thm_C16 ==
    panel_cd__new_dir_vpath__captured # NoVpath =>
      LET cwd == vfs_path_as_str(cwd_vpath)
          new == vfs_path_as_str(panel_cd__new_dir_vpath__captured)
      IN  IF fname[1] = SEP
          THEN new = fname
          ELSE new = (IF cwd = <<SEP>> THEN cwd ELSE cwd \o <<SEP>>) \o fname

\* The first test: in /t, the entry /d was entered and panel_cd got /d.
Wit_C16 ==
    /\ vfs_path_as_str(cwd_vpath) = <<"/", "t">>
    /\ fname = <<"/", "d">>
    /\ panel_cd__new_dir_vpath__captured # NoVpath
    /\ vfs_path_as_str(panel_cd__new_dir_vpath__captured) = <<"/", "d">>

(* ------------------------------- C17 ----------------------------------- *)
AddSucceeded(ks, s, p) ==
    \E i \in DOMAIN ks : /\ ks[i].call = "inotify_add_watch" /\ ks[i].slot = s
                         /\ ks[i].arg = p /\ ks[i].ret # NoWd

\* C17 (binding invariant): after every step each slot holds a handle if and
\* only if it holds a path, and a slot's path changes to a new path only in a
\* step whose inotify_add_watch for that slot and that path succeeded.
Claim_C17 ==
    [][\A s \in Slots :
         /\ (WdAfter(s) # NoWd) <=> (PathAfter(s) # NoPath)
         /\ (PathAfter(s) # NoPath /\ PathAfter(s) # PathOf(Cur, s))
            => AddSucceeded(kops', s, PathAfter(s))]_vars

(* ------------------------------- C18 ----------------------------------- *)
\* The kernel watches the path slot s is bound to, under the slot's handle.
LiveBefore(s) ==
    /\ WdOf(Cur, s) >= 0 /\ PathOf(Cur, s) # NoPath
    /\ watches[PathOf(Cur, s)] = WdOf(Cur, s)

LiveAfter(s) ==
    /\ WdAfter(s) >= 0 /\ PathAfter(s) # NoPath
    /\ watches'[PathAfter(s)] = WdAfter(s)

\* C18 (independent bindings): a registry update leaves the binding and the
\* kernel watch of a slot whose panel still shows the bound path as they
\* were, whatever it does to the other slot, also when both slots held the
\* same watch descriptor; and after every step a slot that holds a handle has
\* a live kernel watch on its bound path.
Claim_C18 ==
    [][\A s \in Slots :
         /\ (IsUpdate /\ LiveBefore(s)
               /\ dirwatch_panel_should_watch(PanelOf(s)) = PathOf(Cur, s))
            => (/\ WdAfter(s) = WdOf(Cur, s) /\ PathAfter(s) = PathOf(Cur, s)
                /\ LiveAfter(s))
         /\ WdAfter(s) >= 0 => LiveAfter(s)]_vars

(* ------------------------------- C19 ----------------------------------- *)
\* A queued record carries the handle slot s holds.
Matched(s) ==
    /\ WdOf(Cur, s) # NoWd
    /\ \E i \in DOMAIN events : events[i] = WdOf(Cur, s)

TimerSet(ks) == \E i \in DOMAIN ks : ks[i].call = "timerfd_settime"

\* C19 (unmatched records): an on_readable whose records match the handle of
\* neither slot, or that reads nothing, leaves both pending flags and the
\* timer as they were; on_readable programs the timer only when it matched a
\* record to a slot.
Claim_C19 ==
    [][op'.name = "on_readable" =>
         /\ (\A s \in Slots : ~Matched(s))
            => (/\ \A s \in Slots : PendingAfter(s) = Pending(s)
                /\ it_value' = it_value /\ expirations' = expirations)
         /\ TimerSet(kops') => \E s \in Slots : Matched(s)]_vars

(* ------------------------------- C20 ----------------------------------- *)
\* C20 (rebind on path change): after an update in which the panel of slot s
\* was eligible with a path p other than the slot's path (or the slot had
\* none) and inotify_add_watch for s and p succeeded, the slot's previous
\* kernel watch is gone and the slot holds p and the descriptor of a live
\* kernel watch on p.
Claim_C20 ==
    [][\A s \in Slots, p \in Paths :
         (/\ dirwatch_panel_should_watch(PanelOf(s)) = p
          /\ PathOf(Cur, s) # p
          /\ AddSucceeded(kops', s, p))
         => (/\ PathAfter(s) = p
             /\ WdAfter(s) >= 0 /\ watches'[p] = WdAfter(s)
             /\ WdOf(Cur, s) >= 0
                  => \A q \in Paths : watches'[q] # WdOf(Cur, s))]_vars

(* ------------------------------- C21 ----------------------------------- *)
CallsOf(ks, name) == {i \in DOMAIN ks : ks[i].call = name}

Drained(ks) ==
    {w \in {OVERFLOW_WD} \cup Wds :
       \E i \in CallsOf(ks, "read") :
          \E k \in DOMAIN ks[i].arg : ks[i].arg[k] = w}

\* C22 (stale records): on_readable sets the pending flag of a slot only if a
\* drained record carries the handle the slot holds at that moment; a record
\* with a handle the slot has replaced leaves its flag alone.
Thm_C22 ==
    [][op'.name = "on_readable" =>
         \A s \in Slots :
           (\A i \in DOMAIN events : events[i] # WdOf(Cur, s))
              => PendingAfter(s) = Pending(s)]_vars

\* The left slot holds a handle registered after the first one; an
\* on_readable drained a record of the first watch, which the kernel no
\* longer has, and did not flag the left slot.  The right slot is unbound.
Wit_C22 ==
    /\ op.name = "on_readable"
    /\ wd_left = 2 /\ wd_right = NoWd
    /\ Drained(kops) = {1}
    /\ \A p \in Paths : watches[p] # 1
    /\ ~pending_left

(* ------------------------------- C23 ----------------------------------- *)
Eligible(p) ==
    p.exists /\ p.listing /\ ~p.panelized /\ p.cwd # NoPath /\ p.local

\* C23 (eligibility policy): dirwatch_panel_should_watch gives the panel's
\* path exactly when the panel exists, its slot shows a listing, the listing
\* is not panelized, the path is available and local, and nothing otherwise;
\* evaluating it changes nothing: an update that finds no slot eligible and no
\* handle to remove leaves the whole state as it was.
Thm_C23 ==
    /\ \A s \in Slots :
         dirwatch_panel_should_watch(PanelOf(s))
           = IF Eligible(PanelOf(s)) THEN PanelOf(s).cwd ELSE NoPath
    /\ (Idle /\ \A s \in Slots : ~Eligible(PanelOf(s)) /\ WdOf(Cur, s) = NoWd)
         => \A ok \in OkChoices : dirwatch_update_watches(Cur, ok) = Cur

\* The left panel became a panelized listing and the update, finding it not
\* eligible, removed its watch; the right panel, an ordinary local listing,
\* is watched.
Wit_C23 ==
    /\ op.name = "panel_dir_changed"
    /\ left_panel.exists /\ left_panel.listing /\ left_panel.panelized
    /\ left_panel.cwd # NoPath /\ left_panel.local
    /\ wd_left = NoWd /\ left_path = NoPath
    /\ WatchCalls(kops, LEFT) # {}
    /\ Eligible(right_panel) /\ right_path = right_panel.cwd /\ wd_right >= 0

(* ------------------------------ C24 ------------------------------------ *)
\* The duration the claim states for a configured debounce interval.
StatedDuration(cfg) == IF cfg <= 0 THEN 1 ELSE cfg

\* C24 (debounce duration): every call that arms the timer programs it as a
\* one-shot, no repeat interval, expiring after max(1, configured debounce
\* seconds); a configured value of zero or below gives exactly one second.
Thm_C24 ==
    [][/\ it_interval' = 0
       /\ \A i \in CallsOf(kops', "timerfd_settime") :
            kops'[i].arg # 0 =>
              /\ kops'[i].arg = StatedDuration(dynamic_file_list_debounce_sec)
              /\ it_value' = StatedDuration(dynamic_file_list_debounce_sec)
              /\ expirations' = 0]_vars

\* An on_readable armed the timer while the configured interval was zero or
\* negative, and the timer runs for one second.
Wit_C24 ==
    /\ op.name = "on_readable"
    /\ TimerSet(kops)
    /\ dynamic_file_list_debounce_sec <= 0
    /\ it_value = 1 /\ it_interval = 0

(* ------------------------------- C25 ----------------------------------- *)
\* C25 (quiet brackets survive the enable state): quiet is on only after a
\* set_quiet(true); in every state between two calls, enabled or not, a
\* set_quiet(false) made now leaves quiet off, so quiet is never on after the
\* caller's last set_quiet call was set_quiet(false).
Claim_C25 ==
    Idle => ~dirwatch_set_quiet(Cur, FALSE).watcher_quiet

(* ------------------------------- C26 ----------------------------------- *)
\* C26 (an unbound slot is never flagged): an on_readable does not set the
\* pending flag of a slot that holds no watch handle when it runs, whatever
\* identifiers the drained records carry, the -1 of the queue-overflow record
\* included.
Claim_C26 ==
    [][op'.name = "on_readable" =>
         \A s \in Slots :
           WdOf(Cur, s) = NoWd => (PendingAfter(s) => Pending(s))]_vars

(* ------------------------------- C27 ----------------------------------- *)
\* C27 (no callbacks while disabled): in every state where enabled is false,
\* none of set_quiet, notify_target_dir_changed, enable(false), or an
\* on_readable or timer-expiry dispatch for either descriptor calls the
\* reload or the repaint callback; and no step taken from such a state by
\* one of these operations calls them.
Thm_C27 ==
    [][~watcher_enabled =>
         /\ \A q \in BOOLEAN : dirwatch_set_quiet(Cur, q).calls = <<>>
         /\ \A s \in Slots, ok \in OkChoices :
              dirwatch_panel_dir_changed(Cur, PanelOf(s), ok).calls = <<>>
         /\ dirwatch_set_enabled(Cur, FALSE, TRUE, TRUE,
                                 [s \in Slots |-> TRUE]).calls = <<>>
         /\ \A fd \in {IFD, TFD} :
              /\ dirwatch_callback(Cur, fd).calls = <<>>
              /\ dirwatch_timer_callback(Cur, fd).calls = <<>>
         /\ (\/ op'.name \in {"set_quiet", "panel_dir_changed", "on_readable",
                               "timer_expiry"}
             \/ op' = [name |-> "set_enabled", arg |-> 0])
              => calls' = <<>>]_vars

\* enable(false) left the watcher disabled with quiet on and a slot flagged:
\* the state from which a set_quiet(false) would apply if it were enabled.
Wit_C27 ==
    /\ op = [name |-> "set_enabled", arg |-> 0]
    /\ ~watcher_enabled
    /\ watcher_quiet
    /\ AnyPending

(* ------------------------------- C28 ----------------------------------- *)
\* A call of the step that arms the timer.
Arms(ks) == \E i \in CallsOf(ks, "timerfd_settime") : ks[i].arg # 0

\* C28 (armed implies pending): in every state between two watcher
\* operations an armed timer comes with a pending flag; a step clears a
\* pending flag only by applying (timer expiry in normal mode, or
\* set_quiet(false)), which leaves the timer disarmed; and a step arms the
\* timer only as an on_readable that leaves a pending flag set.
Thm_C28 ==
    [][/\ (ready' = {} /\ it_value' > 0) => (pending_left' \/ pending_right')
       /\ (\E s \in Slots : Pending(s) /\ ~PendingAfter(s))
            => /\ \/ op'.name = "timer_expiry" /\ ~watcher_quiet
                  \/ op' = [name |-> "set_quiet", arg |-> 0]
               /\ it_value' = 0
               /\ ~pending_left' /\ ~pending_right'
       /\ (Arms(kops') \/ it_value' > it_value)
            => /\ op'.name = "on_readable"
               /\ pending_left' \/ pending_right'
               /\ Arms(kops')]_vars

\* set_quiet(false) applied flags that were kept through a quiet period while
\* the timer was armed, and the timer is disarmed.
Wit_C28 ==
    /\ op = [name |-> "set_quiet", arg |-> 0]
    /\ "repaint_screen" \in {calls[i] : i \in DOMAIN calls}
    /\ TimerSet(kops)
    /\ it_value = 0 /\ expirations = 0
    /\ ~AnyPending

(* ------------------------------- C29 ----------------------------------- *)
\* How many registrations of descriptor fd the event loop holds.
Registrations(l, fd) == Cardinality({i \in DOMAIN l : l[i].fd = fd})

\* Positions in ks of the successful calls of name.
Opens(ks, name) == {i \in CallsOf(ks, name) : ks[i].ret # NoFd}

\* Positions in ks of the close calls on descriptor fd.
Closes(ks, fd) == {i \in CallsOf(ks, "close") : ks[i].arg = fd}

\* The descriptors in the state and in the event loop agree.
DescriptorsConsistent(enabled, ifd, tfd, l) ==
    /\ enabled <=> ifd # NoFd
    /\ tfd # NoFd => enabled
    /\ Registrations(l, IFD) = (IF ifd = IFD THEN 1 ELSE 0)
    /\ Registrations(l, TFD) = (IF tfd = TFD THEN 1 ELSE 0)
    /\ \A i \in DOMAIN l : l[i].fd \in {ifd, tfd} \ {NoFd}

\* C29 (descriptor consistency): across enable and disable calls, enabled is
\* true exactly when the notification descriptor is present, the timer
\* descriptor is present only while enabled, every present descriptor is
\* registered with the event loop exactly once and nothing else is
\* registered; a descriptor is created only while none of its kind is held
\* and a descriptor the watcher lets go of is closed once, so at most one
\* notification descriptor and one timer descriptor are open at a time.
Thm_C29 ==
    [][/\ DescriptorsConsistent(watcher_enabled, inotify_fd, timer_fd, select_list)
       /\ DescriptorsConsistent(watcher_enabled', inotify_fd', timer_fd',
                                select_list')
       /\ Opens(kops', "inotify_init1") # {} => inotify_fd = NoFd
       /\ Opens(kops', "timerfd_create") # {} => timer_fd = NoFd
       /\ Cardinality(Opens(kops', "inotify_init1")) <= 1
       /\ Cardinality(Opens(kops', "timerfd_create")) <= 1
       /\ Cardinality(Closes(kops', IFD))
            = (IF inotify_fd = IFD /\ inotify_fd' = NoFd THEN 1 ELSE 0)
       /\ Cardinality(Closes(kops', TFD))
            = (IF timer_fd = TFD /\ timer_fd' = NoFd THEN 1 ELSE 0)]_vars

\* enable(true) created and registered both descriptors while a pending flag
\* of an earlier enabled period was still set: at least the second enable.
Wit_C29 ==
    /\ op = [name |-> "set_enabled", arg |-> 1]
    /\ Opens(kops, "inotify_init1") # {} /\ Opens(kops, "timerfd_create") # {}
    /\ inotify_fd = IFD /\ timer_fd = TFD
    /\ Registrations(select_list, IFD) = 1 /\ Registrations(select_list, TFD) = 1
    /\ AnyPending

====
